---------------------------- MODULE Spec2Model ----------------------------
(***************************************************************************)
(* LLMConnectors: the three provider clients (OpenAIClient,                *)
(* AnthropicClient, PerplexityClient), their Settings records and the      *)
(* retry/backoff loop of _request.                                         *)
(*                                                                         *)
(* Floats (timeout, backoff_factor, the sleep delays) are fixed-point      *)
(* integers counting 1/FloatScale of a second.  Optional values (a         *)
(* keyword argument that may be omitted, an environment variable that may  *)
(* be unset) are sequences of length 0 or 1.                               *)
(***************************************************************************)
EXTENDS Integers, Sequences, FiniteSets, TLC

(***************************************************************************)
(* Bounds of the exploration.                                              *)
(***************************************************************************)
\* largest retry budget given explicitly to a client that issues calls
MaxRetriesBound == 2
\* largest number of user turns one client accumulates
MaxTurns == 2
\* largest number of close() calls made on one client
MaxCloses == 2

(***************************************************************************)
(* float representation                                                    *)
(***************************************************************************)
FloatScale == 2

\* float(n) of an integer literal or of an int
Float(n) == n * FloatScale

\* int(x) of a float: truncation toward zero, returned in float units so
\* that it can be multiplied like the float it replaces
IntOf(x) == IF x >= 0 THEN (x \div FloatScale) * FloatScale
                      ELSE -(((-x) \div FloatScale) * FloatScale)

\* 2 ** attempt
RECURSIVE Pow2(_)
Pow2(a) == IF a <= 0 THEN 1 ELSE 2 * Pow2(a - 1)

(***************************************************************************)
(* optional values                                                         *)
(***************************************************************************)
None == << >>
Some(v) == << v >>
Opt(S) == {None} \cup {Some(v) : v \in S}
OrElse(o, d) == IF o = << >> THEN d ELSE o[1]

(***************************************************************************)
(* Settings (ConfigOpenAI.py, ConfigAnthropic.py, ConfigPerplexity.py)     *)
(***************************************************************************)
Providers == {"openai", "anthropic", "perplexity"}

\* hardcoded defaults of the three Settings classes (identical in all three)
DefaultTimeout == 120
DefaultMaxRetries == 5
DefaultBackoffFactor == 2

\* An environment: the variables {PROVIDER}_API_KEY, _TIMEOUT, _MAX_RETRIES,
\* _BACKOFF_FACTOR as optional values (the numeric ones already as the number
\* float()/int() reads from their text).
Env(key, timeout, retries, backoff) ==
    [API_KEY |-> key, TIMEOUT |-> timeout, MAX_RETRIES |-> retries,
     BACKOFF_FACTOR |-> backoff]

\* Field defaults: os.getenv(NAME, hardcoded) converted by float()/int()
default_timeout(env) == OrElse(env.TIMEOUT, Float(DefaultTimeout))
default_max_retries(env) == OrElse(env.MAX_RETRIES, DefaultMaxRetries)
default_backoff_factor(env) == OrElse(env.BACKOFF_FACTOR, Float(DefaultBackoffFactor))

\* model_validator(mode='after') validate_api_key: the explicit key, else the
\* environment variable, else ValueError.  Returns the resolved key ("" when
\* neither is present).
resolve_api_key(api_key, env) ==
    IF api_key # "" THEN api_key ELSE OrElse(env.API_KEY, "")

\* a validator that accepts a missing credential
validate_api_key_skipped(api_key, env) == TRUE

validate_api_key(api_key, env) == resolve_api_key(api_key, env) # ""

\* The keyword arguments of a Settings constructor call
SettingsArgs(key, timeout, retries, backoff) ==
    [api_key |-> key, timeout |-> timeout, max_retries |-> retries,
     backoff_factor |-> backoff]

\* XxxSettings(**args): the record pydantic builds, or a ValueError.  The
\* only validator is validate_api_key; the numeric fields are taken as given.
SettingsConstruct(args, env) ==
    IF validate_api_key(OrElse(args.api_key, ""), env)
    THEN [ok             |-> TRUE,
          api_key        |-> resolve_api_key(OrElse(args.api_key, ""), env),
          timeout        |-> OrElse(args.timeout, default_timeout(env)),
          max_retries    |-> OrElse(args.max_retries, default_max_retries(env)),
          backoff_factor |-> OrElse(args.backoff_factor, default_backoff_factor(env))]
    ELSE [ok             |-> FALSE,
          api_key        |-> "",
          timeout        |-> OrElse(args.timeout, default_timeout(env)),
          max_retries    |-> OrElse(args.max_retries, default_max_retries(env)),
          backoff_factor |-> OrElse(args.backoff_factor, default_backoff_factor(env))]

(***************************************************************************)
(* Python values: the parsed JSON bodies and what the calls return         *)
(***************************************************************************)
PyNone == [type |-> "NoneType"]
PyStr(s) == [type |-> "str", val |-> s]
PyNum(n) == [type |-> "float", val |-> n]
PyList(l) == [type |-> "list", val |-> l]
PyDict(d) == [type |-> "dict", val |-> d]

\* subscripts: v['name'] and v[i]
Key(k) == [key |-> k]
Index(i) == [index |-> i]

Value(v) == [ok |-> TRUE, val |-> v]
Raise(e) == [ok |-> FALSE, exc |-> e]

\* v[step] as Python evaluates it on a dict, a list, None or a number (a
\* string is only ever a leaf of the bodies explored and is never indexed)
GetItem(v, step) ==
    IF "key" \in DOMAIN step
    THEN IF v.type = "dict"
         THEN IF step.key \in DOMAIN v.val THEN Value(v.val[step.key])
                                          ELSE Raise("KeyError")
         ELSE Raise("TypeError")
    ELSE CASE v.type = "list" ->
                IF step.index < Len(v.val) THEN Value(v.val[step.index + 1])
                                           ELSE Raise("IndexError")
           [] v.type = "dict" -> Raise("KeyError")
           [] OTHER -> Raise("TypeError")

\* v[path[1]][path[2]]... left to right, stopping at the first exception
RECURSIVE Subscript(_, _)
Subscript(v, path) ==
    IF path = << >> THEN Value(v)
    ELSE LET r == GetItem(v, Head(path))
         IN  IF r.ok THEN Subscript(r.val, Tail(path)) ELSE r

\* the answer taken from the second choice
AnswerPathSecondChoice ==
    << Key("choices"), Index(1), Key("message"), Key("content") >>

\* result['choices'][0]['message']['content']
AnswerPath == << Key("choices"), Index(0), Key("message"), Key("content") >>
\* result['data'][0]['embedding']
EmbeddingPath == << Key("data"), Index(0), Key("embedding") >>

(***************************************************************************)
(* HTTP: what one await of self._client.request(...) can produce           *)
(***************************************************************************)
\* A response body: text that resp.json() parses, or text it rejects
JsonBody(v) == [json |-> TRUE, value |-> v]
NotJson == [json |-> FALSE]

Choice(s) == PyDict([message |-> PyDict([content |-> PyStr(s)])])
ChatBody(contents) ==
    PyDict([choices |-> PyList([i \in 1..Len(contents) |-> Choice(contents[i])])])
EmbeddingBody(vec) ==
    PyDict([data |-> PyList(<< PyDict([embedding |-> PyList(vec)]) >>)])
ErrorBody == PyDict([error |-> PyStr("e")])

SuccessBodies ==
    { JsonBody(ChatBody(<< "hi" >>)),
      JsonBody(ChatBody(<< "hi", "yo" >>)),
      JsonBody(ChatBody(<< >>)),
      JsonBody(EmbeddingBody(<< PyNum(1), PyNum(2) >>)),
      JsonBody(ErrorBody),
      JsonBody(PyNone),
      NotJson }

Response(status, body) == [kind |-> "response", status |-> status, body |-> body]
RequestError(name) == [kind |-> "error", name |-> name]

SuccessStatuses == {200}
ErrorStatuses == {301, 401, 404, 429, 503}
NetworkErrors == {"ReadTimeout"}

\* Response.is_success
is_success(status) == 200 <= status /\ status <= 299

\* resp.raise_for_status(): httpx raises HTTPStatusError for every status
\* outside 2xx (1xx, 3xx, 4xx, 5xx)
raise_for_status(resp) == ~ is_success(resp.status)

\* The exception objects; each carries the attempt whose request produced it
HTTPStatusError(resp, attempt) ==
    [type |-> "HTTPStatusError", status |-> resp.status, attempt |-> attempt]
TransportError(err, attempt) ==
    [type |-> err.name, status |-> 0, attempt |-> attempt]
LocalError(name) == [type |-> name, status |-> 0, attempt |-> -1]

(***************************************************************************)
(* The retry decision of _request                                          *)
(***************************************************************************)
\* range(self.max_retries + 1)
retry_range(max_retries) == 0 .. max_retries

\* a retry decision that treats every error status as transient
is_retriable_status_any_error(status) == status >= 400

\* status == 429 or 500 <= status < 600
is_retriable_status(status) == status = 429 \/ (500 <= status /\ status < 600)

\* an off-by-one retry budget: one more retry than max_retries allows
can_retry_one_more(attempt, max_retries) == attempt <= max_retries

\* attempt < self.max_retries
can_retry(attempt, max_retries) == attempt < max_retries

\* backoff = self.backoff_factor * (2 ** attempt)
backoff(backoff_factor, attempt) == backoff_factor * Pow2(attempt)

\* a parsed body that is computed and not handed back
json_dropped(body) == Value(PyNone)

\* resp.json(): the parsed body, or JSONDecodeError on text that is not JSON
\* (a ValueError, which no except clause of _request catches)
json(body) ==
    IF body.json THEN Value(body.value) ELSE Raise(LocalError("JSONDecodeError"))

\* The exception a bare `raise` re-raises: the one the except clause is
\* handling, that is the failure of the attempt just made (the last entry of
\* the outcomes seen so far by this call).
exception_of(outcome, attempt) ==
    IF outcome.kind = "response" THEN HTTPStatusError(outcome, attempt)
                                 ELSE TransportError(outcome, attempt)
\* an error kept from the first failure of the call
current_exception_first(outcomes) == exception_of(outcomes[1], 0)

current_exception(outcomes) ==
    exception_of(outcomes[Len(outcomes)], Len(outcomes) - 1)

\* One pass through the body of the for loop once the awaited request has
\* produced `outcomes[Len(outcomes)]`: return the parsed body, sleep and
\* continue, or raise.
request_step(outcomes, attempt, max_retries, backoff_factor) ==
    LET outcome == outcomes[Len(outcomes)]
    IN  IF outcome.kind = "response"
        THEN IF raise_for_status(outcome)
             THEN \* except httpx.HTTPStatusError
                  IF can_retry(attempt, max_retries)
                        /\ is_retriable_status(outcome.status)
                  THEN [do |-> "sleep", delay |-> backoff(backoff_factor, attempt)]
                  ELSE [do |-> "raise", exc |-> current_exception(outcomes)]
             ELSE \* return resp.json()
                  IF json(outcome.body).ok
                  THEN [do |-> "return", val |-> json(outcome.body).val]
                  ELSE [do |-> "raise", exc |-> json(outcome.body).exc]
        ELSE \* except (httpx.RequestError, httpx.TimeoutException)
             IF can_retry(attempt, max_retries)
             THEN [do |-> "sleep", delay |-> backoff(backoff_factor, attempt)]
             ELSE [do |-> "raise", exc |-> current_exception(outcomes)]

\* except clauses that catch every exception, cancellation included
handled_by_request_any(exc_type) == TRUE

\* The exceptions the two except clauses of _request catch:
\* httpx.HTTPStatusError and (httpx.RequestError, httpx.TimeoutException).
\* asyncio.CancelledError is none of them.
handled_by_request(exc_type) ==
    exc_type \in {"HTTPStatusError", "RequestError", "TimeoutException"}

\* CancelledError raised at the await where the call is suspended (`at`):
\* the request is awaited inside the try block, the sleep inside an except
\* clause, which no try block covers.
cancel_step(at, attempt, max_retries, backoff_factor) ==
    IF at = "awaiting" /\ handled_by_request("CancelledError")
                       /\ can_retry(attempt, max_retries)
    THEN [do |-> "sleep", delay |-> backoff(backoff_factor, attempt)]
    ELSE [do |-> "raise", exc |-> LocalError("CancelledError")]

\* httpx.AsyncClient.aclose(): closes the transport unless the client is
\* closed already, and returns None either way
aclose(closed) == Value(PyNone)

(***************************************************************************)
(* Payloads                                                                *)
(***************************************************************************)
DefaultSystemPrompt == "You are an expert, wise, and playful AI mentor. ..."

SystemMessage == [role |-> "system", content |-> DefaultSystemPrompt]
UserMessage(query) == [role |-> "user", content |-> query]

EmptyDict == << >>

\* dict.update: the keys of kw are added, replacing equal keys of d
Update(d, kw) ==
    [k \in DOMAIN d \cup DOMAIN kw |-> IF k \in DOMAIN kw THEN kw[k] ELSE d[k]]

\* a user turn that is appended twice
append_user_twice(msgs, query) ==
    Append(Append(msgs, UserMessage(query)), UserMessage(query))

\* a user turn that replaces the previous one
append_user_overwrite(msgs, query) ==
    IF Len(msgs) <= 1 THEN Append(msgs, UserMessage(query))
    ELSE [msgs EXCEPT ![Len(msgs)] = UserMessage(query)]

\* self.messages.append({'role': 'user', 'content': query})
append_user(msgs, query) == Append(msgs, UserMessage(query))

\* self.messages is put in the payload by reference: the payload holds the
\* list object of the client, not a copy of it
MessagesOf(c) == [ref |-> c]

openai_chat_payload(c, model, temperature, kwargs) ==
    Update([model |-> model, messages |-> MessagesOf(c), temperature |-> temperature],
           kwargs)

\* an embeddings payload that carries the history of the client c1
openai_embeddings_payload_with_history(input, model, kwargs) ==
    Update([model |-> model, input |-> input,
            messages |-> MessagesOf("c1")],
           kwargs)

openai_embeddings_payload(input, model, kwargs) ==
    Update([model |-> model, input |-> input], kwargs)

anthropic_chat_payload(c, system_prompt, model, max_tokens, kwargs) ==
    Update([model |-> model, system |-> system_prompt, messages |-> MessagesOf(c),
            max_tokens |-> max_tokens],
           kwargs)

perplexity_chat_payload(c, model) ==
    [model |-> model, messages |-> MessagesOf(c)]

\* The JSON httpx encodes when the request is built: the list a payload
\* refers to is read at that moment
json_encode(payload, msgs) ==
    IF "messages" \in DOMAIN payload
    THEN [payload EXCEPT !["messages"] = msgs[payload["messages"].ref]]
    ELSE payload

(***************************************************************************)
(* What the public methods do with the value _request returned             *)
(***************************************************************************)
\* an unwrapping that yields None where the path is missing
chat_completion_return_or_none(return_only_answer, result) ==
    IF return_only_answer
    THEN LET r == Subscript(result, AnswerPath)
         IN  IF r.ok THEN Value(r.val) ELSE Value(PyNone)
    ELSE Value(result)

\* if return_only_answer: return result['choices'][0]['message']['content']
\* return result
chat_completion_return(return_only_answer, result) ==
    IF return_only_answer
    THEN LET r == Subscript(result, AnswerPath)
         IN  IF r.ok THEN Value(r.val) ELSE Raise(LocalError(r.exc))
    ELSE Value(result)

\* if return_only_embeddings: return result['data'][0]['embedding']
\* return result
embeddings_return(return_only_embeddings, result) ==
    IF return_only_embeddings
    THEN LET r == Subscript(result, EmbeddingPath)
         IN  IF r.ok THEN Value(r.val) ELSE Raise(LocalError(r.exc))
    ELSE Value(result)

\* The statements that follow `await self._request(...)` in the method cl
method_return(cl, result) ==
    CASE cl.method = "openai.chat_completion" -> chat_completion_return(cl.flag, result)
      [] cl.method = "openai.embeddings"      -> embeddings_return(cl.flag, result)
      [] OTHER                                -> Value(result)

(***************************************************************************)
(* State                                                                   *)
(***************************************************************************)
VARIABLES
    env,        \* the process environment read by the Settings classes
    client,     \* client instance -> its fields (settings, max_retries, ...)
    messages,   \* client instance -> self.messages
    queries,    \* client instance -> the queries given to chat_completion, in call order
    pc,         \* task -> where the coroutine of its current call stands
    call,       \* task -> the method, arguments and payload of its current call
    attempt,    \* task -> the loop variable of _request
    outcomes,   \* task -> what each HTTP attempt of the call produced
    delays,     \* task -> the delays given to asyncio.sleep by the call
    sent,       \* task -> the JSON sent by each HTTP attempt of the call
    result,     \* task -> what the call returned or raised
    cancelled,  \* task -> whether the task was cancelled during its current call
    closes      \* client instance -> the outcomes of the close() calls made on it

vars == << env, client, messages, queries, pc, call, attempt, outcomes, delays,
           sent, result, cancelled, closes >>

clientVars == << env, client, closes >>
taskVars == << pc, call, attempt, outcomes, delays, sent, result, cancelled >>

Clients == {"c1"}
Tasks == {"t1"}

NoCall == [method |-> "none"]
NoResult == Raise(LocalError("pending"))

\* Values given to the calls
Queries == {"q1", "q2"}
Inputs == {"text"}
ExtraOptions == {EmptyDict, [top_p |-> "1"]}
SystemPrompts == {"", "custom prompt"}

\* backoff factors a caller configures: 0, 1.5 and 2 seconds
BackoffFactors == {0, Float(1) + FloatScale \div 2, Float(2)}
ExplicitKeys == {"sk-explicit"}
EnvKeys == {"sk-env"}

\* Constructor arguments and environments of the clients that issue calls
\* (the credential comes from the environment; explicit credentials, timeouts
\* and environment defaults are explored by SpecSettings below)
CallArgs ==
    { SettingsArgs(None, None, Some(n), Some(b)) :
        n \in -1 .. MaxRetriesBound, b \in BackoffFactors }
CallEnvs == { Env(k, None, None, None) : k \in Opt(EnvKeys) }

InitWith(envs, clients, tasks) ==
    /\ env \in envs
    /\ client = [c \in clients |-> [state |-> "absent"]]
    /\ messages = [c \in clients |-> << >>]
    /\ queries = [c \in clients |-> << >>]
    /\ pc = [t \in tasks |-> "idle"]
    /\ call = [t \in tasks |-> NoCall]
    /\ attempt = [t \in tasks |-> 0]
    /\ outcomes = [t \in tasks |-> << >>]
    /\ delays = [t \in tasks |-> << >>]
    /\ sent = [t \in tasks |-> << >>]
    /\ result = [t \in tasks |-> NoResult]
    /\ cancelled = [t \in tasks |-> FALSE]
    /\ closes = [c \in clients |-> << >>]

Init == InitWith(CallEnvs, Clients, Tasks)

(***************************************************************************)
(* Construction of a client                                                *)
(***************************************************************************)
\* a history that starts empty in every client
initial_messages_empty(provider) == << >>

\* a history that starts with the system message in every client
initial_messages_with_system(provider) == << SystemMessage >>

\* self.messages after __init__
initial_messages(provider) ==
    IF provider = "anthropic" THEN << >> ELSE << SystemMessage >>

\* self.backoff_factor: float(...) in OpenAIClient, int(...) in the other two
client_backoff_factor(provider, settings) ==
    IF provider = "openai" THEN settings.backoff_factor
                           ELSE IntOf(settings.backoff_factor)

\* the timeout given to httpx.AsyncClient: float(...) in OpenAIClient,
\* int(...) in the other two
client_timeout(provider, settings) ==
    IF provider = "openai" THEN settings.timeout ELSE IntOf(settings.timeout)

\* XxxClient(settings=XxxSettings(**args)); AnthropicClient also takes
\* system_prompt ('' selects the default prompt).  A ValueError of the
\* Settings constructor leaves no client.
Construct(c, provider, args, system_prompt) ==
    /\ client[c].state = "absent"
    /\ LET settings == SettingsConstruct(args, env)
       IN  IF settings.ok
           THEN /\ client' = [client EXCEPT ![c] =
                       [state          |-> "ready",
                        provider       |-> provider,
                        args           |-> args,
                        settings       |-> settings,
                        timeout        |-> client_timeout(provider, settings),
                        max_retries    |-> settings.max_retries,
                        backoff_factor |-> client_backoff_factor(provider, settings),
                        system_prompt  |-> IF system_prompt # "" THEN system_prompt
                                           ELSE DefaultSystemPrompt]]
                /\ messages' = [messages EXCEPT ![c] = initial_messages(provider)]
           ELSE /\ client' = [client EXCEPT ![c] =
                       [state |-> "config_error", provider |-> provider,
                        args |-> args]]
                /\ UNCHANGED messages
    /\ UNCHANGED << env, queries, closes >>
    /\ UNCHANGED taskVars

(***************************************************************************)
(* A call: the coroutine of chat_completion / embeddings and of the        *)
(* _request it awaits.  It runs without interruption from one await to the *)
(* next: up to the request of an attempt, from its outcome to the sleep or *)
(* to the end of the call, and from the end of the sleep to the next       *)
(* request.                                                                *)
(***************************************************************************)
\* the places where a coroutine has handed control back to the event loop
\* under a sleep that does not yield (time.sleep)
yield_points_blocking_sleep == {"awaiting"}

\* the places where a coroutine has handed control back to the event loop:
\* `await self._client.post(...)` and `await asyncio.sleep(backoff)`
yield_points == {"awaiting", "sleeping"}

Ended == {"idle", "returned", "raised", "cancelled"}

\* The event loop runs one coroutine at a time: task t takes a step only
\* while every other task is suspended at an await or has no call running.
LoopFree(t) == \A u \in DOMAIN pc \ {t} : pc[u] \in yield_points \cup Ended

\* self._client is closed once close() has been awaited
is_closed(c) == Len(closes[c]) > 0

CanStart(t, c) ==
    /\ pc[t] \in Ended
    /\ LoopFree(t)
    /\ client[c].state = "ready"

UserTurns(msgs) == Cardinality({i \in 1 .. Len(msgs) : msgs[i].role = "user"})

\* The call of task t ends: _request returned or raised r
Finish(t, cl, r) ==
    /\ pc' = [pc EXCEPT ![t] = IF ~ r.ok \/ ~ method_return(cl, r.val).ok
                               THEN "raised" ELSE "returned"]
    /\ result' = [result EXCEPT ![t] = IF r.ok THEN method_return(cl, r.val) ELSE r]

\* The next iteration of `for attempt in range(self.max_retries + 1)` with
\* loop variable a: the request is built and sent, or, when the range is
\* used up, the loop ends and _request returns None.
Iterate(t, cl, a, msgs) ==
    IF a \in retry_range(client[cl.client].max_retries) /\ is_closed(cl.client)
    THEN \* a closed httpx client refuses to send: RuntimeError, which no
         \* except clause of _request catches
         /\ attempt' = [attempt EXCEPT ![t] = a]
         /\ sent' = [sent EXCEPT ![t] = IF a = 0 THEN << >> ELSE sent[t]]
         /\ Finish(t, cl, Raise(LocalError("RuntimeError")))
    ELSE
    IF a \in retry_range(client[cl.client].max_retries)
    THEN /\ attempt' = [attempt EXCEPT ![t] = a]
         /\ sent' = [sent EXCEPT ![t] =
                        Append(IF a = 0 THEN << >> ELSE sent[t],
                               json_encode(cl.payload, msgs))]
         /\ pc' = [pc EXCEPT ![t] = "awaiting"]
         /\ result' = [result EXCEPT ![t] = NoResult]
    ELSE /\ attempt' = [attempt EXCEPT ![t] = IF a = 0 THEN 0 ELSE attempt[t]]
         /\ sent' = [sent EXCEPT ![t] = IF a = 0 THEN << >> ELSE sent[t]]
         /\ Finish(t, cl, Value(PyNone))

\* The call cl starts on task t and runs up to its first await
Begin(t, cl, msgs) ==
    /\ call' = [call EXCEPT ![t] = cl]
    /\ outcomes' = [outcomes EXCEPT ![t] = << >>]
    /\ delays' = [delays EXCEPT ![t] = << >>]
    /\ cancelled' = [cancelled EXCEPT ![t] = FALSE]
    /\ Iterate(t, cl, 0, msgs)

\* OpenAIClient.chat_completion(query, return_only_answer=flag, **kwargs)
OpenAIChatCompletion(t, c, query, flag, kwargs) ==
    /\ CanStart(t, c)
    /\ client[c].provider = "openai"
    /\ UserTurns(messages[c]) < MaxTurns
    /\ messages' = [messages EXCEPT ![c] = append_user(@, query)]
    /\ queries' = [queries EXCEPT ![c] = Append(@, query)]
    /\ Begin(t, [method |-> "openai.chat_completion", client |-> c, flag |-> flag,
                 turn |-> Len(queries[c]) + 1,
                 after_close |-> is_closed(c),
                 during_sleep |-> \E u \in DOMAIN pc \ {t} : pc[u] = "sleeping",
                 payload |-> openai_chat_payload(c, "gpt-4.1-nano", "0.85", kwargs)],
             messages')
    /\ UNCHANGED clientVars

\* OpenAIClient.embeddings(input, return_only_embeddings=flag, **kwargs)
OpenAIEmbeddings(t, c, input, flag, kwargs) ==
    /\ CanStart(t, c)
    /\ client[c].provider = "openai"
    /\ Begin(t, [method |-> "openai.embeddings", client |-> c, flag |-> flag,
                 turn |-> Len(queries[c]),
                 after_close |-> is_closed(c),
                 during_sleep |-> \E u \in DOMAIN pc \ {t} : pc[u] = "sleeping",
                 payload |-> openai_embeddings_payload(input, "text-embedding-3-small",
                                                       kwargs)],
             messages)
    /\ UNCHANGED << messages, queries >>
    /\ UNCHANGED clientVars

\* AnthropicClient.chat_completion(query, **kwargs)
AnthropicChatCompletion(t, c, query, kwargs) ==
    /\ CanStart(t, c)
    /\ client[c].provider = "anthropic"
    /\ UserTurns(messages[c]) < MaxTurns
    /\ messages' = [messages EXCEPT ![c] = append_user(@, query)]
    /\ queries' = [queries EXCEPT ![c] = Append(@, query)]
    /\ Begin(t, [method |-> "anthropic.chat_completion", client |-> c, flag |-> FALSE,
                 turn |-> Len(queries[c]) + 1,
                 after_close |-> is_closed(c),
                 during_sleep |-> \E u \in DOMAIN pc \ {t} : pc[u] = "sleeping",
                 payload |-> anthropic_chat_payload(c, client[c].system_prompt,
                                 "claude-sonnet-4-5-20250929", "4096", kwargs)],
             messages')
    /\ UNCHANGED clientVars

\* PerplexityClient.chat_completion(query)
PerplexityChatCompletion(t, c, query) ==
    /\ CanStart(t, c)
    /\ client[c].provider = "perplexity"
    /\ UserTurns(messages[c]) < MaxTurns
    /\ messages' = [messages EXCEPT ![c] = append_user(@, query)]
    /\ queries' = [queries EXCEPT ![c] = Append(@, query)]
    /\ Begin(t, [method |-> "perplexity.chat_completion", client |-> c, flag |-> FALSE,
                 turn |-> Len(queries[c]) + 1,
                 after_close |-> is_closed(c),
                 during_sleep |-> \E u \in DOMAIN pc \ {t} : pc[u] = "sleeping",
                 payload |-> perplexity_chat_payload(c, "sonar")],
             messages')
    /\ UNCHANGED clientVars

\* The awaited request of task t produces `outcome`; the loop body of
\* _request runs on it up to the sleep, the return or the raise.
Outcome(t, outcome) ==
    /\ pc[t] = "awaiting"
    /\ LoopFree(t)
    /\ LET cl == call[t]
           seen == Append(outcomes[t], outcome)
           step == request_step(seen, attempt[t], client[cl.client].max_retries,
                                client[cl.client].backoff_factor)
       IN  /\ outcomes' = [outcomes EXCEPT ![t] = seen]
           /\ CASE step.do = "sleep" ->
                     /\ delays' = [delays EXCEPT ![t] = Append(@, step.delay)]
                     /\ pc' = [pc EXCEPT ![t] = "sleeping"]
                     /\ UNCHANGED result
                [] step.do = "return" ->
                     /\ Finish(t, cl, Value(step.val))
                     /\ UNCHANGED delays
                [] step.do = "raise" ->
                     /\ Finish(t, cl, Raise(step.exc))
                     /\ UNCHANGED delays
    /\ UNCHANGED << call, attempt, sent, cancelled, messages, queries >>
    /\ UNCHANGED clientVars

\* a response with a 2xx status
ReceiveSuccess(t) ==
    \E status \in SuccessStatuses, body \in SuccessBodies :
        Outcome(t, Response(status, body))

\* a response with another status (its body is the provider's error document)
ReceiveErrorStatus(t) ==
    \E status \in ErrorStatuses :
        Outcome(t, Response(status, JsonBody(ErrorBody)))

\* no response: connection failure or timeout
ReceiveNetworkError(t) ==
    \E name \in NetworkErrors : Outcome(t, RequestError(name))

\* asyncio.sleep(backoff) of task t is over: `continue`
Wake(t) ==
    /\ pc[t] = "sleeping"
    /\ LoopFree(t)
    /\ Iterate(t, call[t], attempt[t] + 1, messages)
    /\ UNCHANGED << call, outcomes, delays, cancelled, messages, queries >>
    /\ UNCHANGED clientVars

\* The task of the call is cancelled while the call is suspended:
\* asyncio raises CancelledError at the await.
Cancel(t) ==
    /\ pc[t] \in yield_points
    /\ LoopFree(t)
    /\ cancelled' = [cancelled EXCEPT ![t] = TRUE]
    /\ LET cl == call[t]
           step == cancel_step(pc[t], attempt[t], client[cl.client].max_retries,
                               client[cl.client].backoff_factor)
       IN  IF step.do = "sleep"
           THEN /\ delays' = [delays EXCEPT ![t] = Append(@, step.delay)]
                /\ pc' = [pc EXCEPT ![t] = "sleeping"]
                /\ UNCHANGED result
           ELSE /\ pc' = [pc EXCEPT ![t] = "cancelled"]
                /\ result' = [result EXCEPT ![t] = Raise(step.exc)]
                /\ UNCHANGED delays
    /\ UNCHANGED << call, attempt, outcomes, sent, messages, queries >>
    /\ UNCHANGED clientVars

\* XxxClient.close(): `await self._client.aclose()`
Close(c) ==
    /\ client[c].state = "ready"
    /\ Len(closes[c]) < MaxCloses
    /\ closes' = [closes EXCEPT ![c] = Append(@, aclose(is_closed(c)))]
    /\ UNCHANGED << env, client, messages, queries >>
    /\ UNCHANGED taskVars

(***************************************************************************)
(* Specification                                                           *)
(***************************************************************************)
ConstructSome(argset) ==
    \E c \in DOMAIN client, provider \in Providers, args \in argset :
        \E system_prompt \in IF provider = "anthropic" THEN SystemPrompts ELSE {""} :
            Construct(c, provider, args, system_prompt)

StartCall(t) ==
    \E c \in DOMAIN client :
        \/ \E q \in Queries, flag \in BOOLEAN, kw \in ExtraOptions :
               OpenAIChatCompletion(t, c, q, flag, kw)
        \/ \E i \in Inputs, flag \in BOOLEAN, kw \in ExtraOptions :
               OpenAIEmbeddings(t, c, i, flag, kw)
        \/ \E q \in Queries, kw \in ExtraOptions : AnthropicChatCompletion(t, c, q, kw)
        \/ \E q \in Queries : PerplexityChatCompletion(t, c, q)

Next ==
    \/ ConstructSome(CallArgs)
    \/ \E t \in DOMAIN pc : StartCall(t)
    \/ \E t \in DOMAIN pc : ReceiveSuccess(t)
    \/ \E t \in DOMAIN pc : ReceiveErrorStatus(t)
    \/ \E t \in DOMAIN pc : ReceiveNetworkError(t)
    \/ \E t \in DOMAIN pc : Wake(t)
    \/ \E t \in DOMAIN pc : Cancel(t)

Spec == Init /\ [][Next]_vars

(***************************************************************************)
(* Settings construction on its own: every combination of explicit         *)
(* arguments, environment variables and hardcoded defaults                 *)
(***************************************************************************)
\* timeouts: -1, 0 and 30 seconds; backoff factors: -0.5, 0 and 1.5 seconds
AllTimeouts == {-Float(1), 0, Float(30)}
AllBackoffFactors == {-(FloatScale \div 2), 0, Float(1) + FloatScale \div 2}

AllArgs ==
    { SettingsArgs(k, tm, n, b) :
        k \in Opt(ExplicitKeys), tm \in Opt(AllTimeouts),
        n \in Opt(-1 .. MaxRetriesBound), b \in Opt(AllBackoffFactors) }

AllEnvs ==
    { Env(k, tm, n, b) :
        k \in Opt(EnvKeys), tm \in Opt({0, Float(60)}),
        n \in Opt({-1, 3}), b \in Opt({-FloatScale, Float(1)}) }

InitSettings == InitWith(AllEnvs, Clients, Tasks)

NextSettings == ConstructSome(AllArgs)

SpecSettings == InitSettings /\ [][NextSettings]_vars

(***************************************************************************)
(* Vocabulary of the properties                                            *)
(***************************************************************************)
Done(t) == pc[t] \in {"returned", "raised"}
Called(t) == call[t].method # "none"
ClientOf(t) == client[call[t].client]

\* HTTP attempts made so far by the current call of task t
Attempts(t) == Len(sent[t])

LastOutcome(t) == outcomes[t][Len(outcomes[t])]

\* HTTP 429, HTTP 5xx, or a network/timeout error
RetriableFailure(o) ==
    \/ o.kind = "error"
    \/ o.kind = "response" /\ o.status \in {429} \cup (500 .. 599)

\* any status >= 400 other than 429 and outside 500..599
TerminalStatus(o) ==
    o.kind = "response" /\ o.status >= 400 /\ o.status \notin {429} \cup (500 .. 599)

AllRetriable(t, k) == \A i \in 1 .. k : RetriableFailure(outcomes[t][i])

\* the failure of attempt k (counted from 0) whose outcome was o
CauseOf(o, k) ==
    IF o.kind = "response"
    THEN [type |-> "HTTPStatusError", status |-> o.status, attempt |-> k]
    ELSE [type |-> o.name, status |-> 0, attempt |-> k]

(***************************************************************************)
(* Properties                                                              *)
(***************************************************************************)

\* C1: with maxRetries = n >= 0, a call never makes more than n+1 HTTP
\* attempts, and a call all of whose attempts failed with a retriable
\* failure (429, 5xx, network/timeout) has made exactly n+1 attempts and
\* has raised.
C1_ExhaustedRetries ==
    \A t \in DOMAIN pc :
        Called(t) /\ ClientOf(t).settings.max_retries >= 0 =>
            LET n == ClientOf(t).settings.max_retries
            IN  /\ Attempts(t) <= n + 1
                /\ Done(t) /\ AllRetriable(t, Len(outcomes[t])) =>
                      /\ pc[t] = "raised"
                      /\ Attempts(t) = n + 1
                      /\ Len(outcomes[t]) = n + 1

\* a call with two retries allowed has failed three times with retriable
\* failures and raised
C1_Witness ==
    \E t \in DOMAIN pc :
        /\ Called(t) /\ pc[t] = "raised"
        /\ ClientOf(t).settings.max_retries = 2
        /\ Len(outcomes[t]) = 3 /\ AllRetriable(t, 3)
        /\ Attempts(t) = 3

\* C2: a terminal HTTP status (>= 400, not 429, not 5xx) at attempt k (from
\* 0) is the last outcome of the call: the call has raised that status,
\* k+1 attempts were made and only the k delays of the earlier retriable
\* failures were slept, whatever maxRetries is.
C2_TerminalStatusRaisesAtOnce ==
    \A t \in DOMAIN pc :
        \A i \in 1 .. Len(outcomes[t]) :
            TerminalStatus(outcomes[t][i]) =>
                /\ i = Len(outcomes[t])
                /\ pc[t] = "raised"
                /\ result[t] = Raise(CauseOf(outcomes[t][i], i - 1))
                /\ Attempts(t) = i
                /\ Len(delays[t]) = i - 1

\* a 401 at the second attempt, after one retriable failure, of a call that
\* had a retry left
C2_Witness ==
    \E t \in DOMAIN pc :
        /\ Called(t) /\ pc[t] = "raised"
        /\ ClientOf(t).settings.max_retries = 2
        /\ Len(outcomes[t]) = 2
        /\ RetriableFailure(outcomes[t][1])
        /\ TerminalStatus(outcomes[t][2])
        /\ Attempts(t) = 2 /\ Len(delays[t]) = 1

\* C3: in each of the three clients the delay slept after the retriable
\* failure of attempt a equals backoffFactor * 2^a, backoffFactor being the
\* value held by the client's Settings.
C3_DelayIsBackoffFactorTimesPowerOfTwo ==
    \A t \in DOMAIN pc :
        \A i \in 1 .. Len(delays[t]) :
            delays[t][i] = ClientOf(t).settings.backoff_factor * Pow2(i - 1)

\* C4 as stated: when the last outcome of a call is a response with status
\* < 400 (and a JSON body) reached after retriable failures only, the call
\* is over after
\* exactly that many attempts, no delay was slept after it, and (no unwrap
\* flag set) the call returned the parsed body of that response.
C4_StatusBelow400Returns ==
    \A t \in DOMAIN pc :
        LET k == Len(outcomes[t])
        IN  /\ k >= 1
            /\ LastOutcome(t).kind = "response"
            /\ LastOutcome(t).status < 400
            /\ LastOutcome(t).body.json
            /\ AllRetriable(t, k - 1)
            => /\ Done(t)
               /\ Attempts(t) = k
               /\ Len(delays[t]) = k - 1
               /\ ~ call[t].flag =>
                     /\ pc[t] = "returned"
                     /\ result[t] = Value(LastOutcome(t).body.value)

\* C4 amended: the same for a response with a 2xx status whose body is
\* valid JSON.
C4_SuccessReturnsBodyAtOnce ==
    \A t \in DOMAIN pc :
        LET k == Len(outcomes[t])
        IN  /\ k >= 1
            /\ LastOutcome(t).kind = "response"
            /\ LastOutcome(t).status \in 200 .. 299
            /\ LastOutcome(t).body.json
            /\ AllRetriable(t, k - 1)
            => /\ Done(t)
               /\ Attempts(t) = k
               /\ Len(delays[t]) = k - 1
               /\ ~ call[t].flag =>
                     /\ pc[t] = "returned"
                     /\ result[t] = Value(LastOutcome(t).body.value)

\* a call returned the body of its third attempt after two retriable
\* failures
C4_Witness ==
    \E t \in DOMAIN pc :
        /\ Called(t) /\ pc[t] = "returned" /\ ~ call[t].flag
        /\ Len(outcomes[t]) = 3 /\ AllRetriable(t, 2)
        /\ LastOutcome(t).kind = "response" /\ LastOutcome(t).status = 200
        /\ LastOutcome(t).body.json
        /\ result[t] = Value(LastOutcome(t).body.value)
        /\ result[t].val.type = "dict"

\* C5: a call that returned a value made a successful HTTP attempt, for
\* every client built from a Settings value that construction accepted.
C5_ReturnsOnlyAfterSuccess ==
    \A t \in DOMAIN pc :
        pc[t] = "returned" =>
            /\ Attempts(t) >= 1
            /\ Len(outcomes[t]) >= 1
            /\ LastOutcome(t).kind = "response"
            /\ LastOutcome(t).status < 400

\* C6: every Settings value that construction returned has a non-empty
\* credential, timeout > 0, max_retries >= 0 and backoff_factor >= 0.
C6_SettingsInvariant ==
    \A c \in DOMAIN client :
        client[c].state = "ready" =>
            /\ client[c].settings.api_key # ""
            /\ client[c].settings.timeout > 0
            /\ client[c].settings.max_retries >= 0
            /\ client[c].settings.backoff_factor >= 0

\* C7: when a call gave up on a failed attempt, the error it raised is the
\* failure of the last attempt made.
C7_RaisesLastFailure ==
    \A t \in DOMAIN pc :
        /\ pc[t] = "raised"
        /\ Len(outcomes[t]) >= 1
        /\ \/ LastOutcome(t).kind = "error"
           \/ LastOutcome(t).status \notin 200 .. 299
        => result[t] = Raise(CauseOf(LastOutcome(t), Len(outcomes[t]) - 1))

\* 503, then a timeout, then 429: the call raised the 429
C7_Witness ==
    \E t \in DOMAIN pc :
        /\ Called(t) /\ pc[t] = "raised"
        /\ Len(outcomes[t]) = 3
        /\ outcomes[t][1].kind = "response" /\ outcomes[t][1].status = 503
        /\ outcomes[t][2].kind = "error"
        /\ outcomes[t][3].kind = "response" /\ outcomes[t][3].status = 429
        /\ result[t].exc.type = "HTTPStatusError"
        /\ result[t].exc.status = 429

\* C8: on the OpenAI and Perplexity clients every HTTP attempt of the k-th
\* chat_completion call of a client sends messages that start with the
\* system entry followed by the user turns q1..qk in call order.
C8_PayloadAccumulatesUserTurns ==
    \A t \in DOMAIN pc :
        call[t].method \in {"openai.chat_completion", "perplexity.chat_completion"} =>
            \A i \in 1 .. Len(sent[t]) :
                LET k == call[t].turn
                    m == sent[t][i].messages
                IN  /\ Len(m) >= k + 1
                    /\ m[1] = SystemMessage
                    /\ \A j \in 1 .. k :
                          m[j + 1] = [role |-> "user",
                                      content |-> queries[call[t].client][j]]

\* the second call of a client has sent a payload holding both user turns,
\* which differ
C8_Witness ==
    \E t \in DOMAIN pc :
        /\ call[t].method \in {"openai.chat_completion", "perplexity.chat_completion"}
        /\ call[t].turn = 2
        /\ Len(sent[t]) >= 1
        /\ queries[call[t].client][1] # queries[call[t].client][2]
        /\ sent[t][1].messages =
              << SystemMessage,
                 [role |-> "user", content |-> queries[call[t].client][1]],
                 [role |-> "user", content |-> queries[call[t].client][2]] >>

\* C9: on the Anthropic client no entry of the messages of any payload sent
\* has role system or carries the system prompt, and every payload has the
\* system prompt in its top-level system field.
C9_AnthropicSystemOnlyTopLevel ==
    \A t \in DOMAIN pc :
        call[t].method = "anthropic.chat_completion" =>
            \A i \in 1 .. Len(sent[t]) :
                LET p == sent[t][i]
                IN  /\ "system" \in DOMAIN p
                    /\ p.system = ClientOf(t).system_prompt
                    /\ p.system # ""
                    /\ \A j \in 1 .. Len(p.messages) :
                          /\ p.messages[j].role # "system"
                          /\ p.messages[j].content # p.system
                          /\ p.messages[j].content # DefaultSystemPrompt

\* the second call of an Anthropic client has been sent twice
C9_Witness ==
    \E t \in DOMAIN pc :
        /\ call[t].method = "anthropic.chat_completion"
        /\ call[t].turn = 2
        /\ Len(sent[t]) = 2
        /\ Len(sent[t][2].messages) = 2
        /\ sent[t][2].system = "custom prompt"

\* C10: OpenAI chat_completion returns choices[0].message.content of the
\* successful response body when return_only_answer is set and the whole
\* body otherwise; embeddings returns data[0].embedding when
\* return_only_embeddings is set and the whole body otherwise.
C10_UnwrapReturnsFirstAnswer ==
    \A t \in DOMAIN pc :
        /\ pc[t] = "returned"
        /\ call[t].method \in {"openai.chat_completion", "openai.embeddings"}
        /\ Len(outcomes[t]) >= 1
        /\ LastOutcome(t).kind = "response"
        /\ LastOutcome(t).body.json
        => LET body == LastOutcome(t).body.value
           IN  IF ~ call[t].flag
               THEN result[t] = Value(body)
               ELSE IF call[t].method = "openai.chat_completion"
                    THEN result[t] =
                           Value(body.val.choices.val[1].val.message.val.content)
                    ELSE result[t] = Value(body.val.data.val[1].val.embedding)

\* return_only_answer on a body with two choices returned the first, "hi"
C10_Witness ==
    \E t \in DOMAIN pc :
        /\ pc[t] = "returned"
        /\ call[t].method = "openai.chat_completion"
        /\ call[t].flag
        /\ LastOutcome(t).body = JsonBody(ChatBody(<< "hi", "yo" >>))
        /\ result[t] = Value(PyStr("hi"))

\* the exceptions Python raises for a subscript that cannot be followed
ShapeErrors == {"KeyError", "IndexError", "TypeError"}

\* the parsed body v has no first element under the key `key`
LacksFirst(v, key) ==
    \/ v.type # "dict"
    \/ key \notin DOMAIN v.val
    \/ v.val[key].type # "list"
    \/ Len(v.val[key].val) = 0

Unwraps(t) ==
    /\ call[t].method \in {"openai.chat_completion", "openai.embeddings"}
    /\ call[t].flag

\* C11: when the unwrap flag is set and the body of the successful response
\* has no choices[0] (no data[0] for embeddings), the call raises the lookup
\* error of the failed subscript and makes no HTTP attempt after the
\* successful one; a call raises such an error only when its unwrap flag is
\* set.
C11_MissingPathRaisesUnretried ==
    \A t \in DOMAIN pc :
        /\ ( /\ pc[t] \in {"returned", "raised"}
             /\ Unwraps(t)
             /\ Len(outcomes[t]) >= 1
             /\ LastOutcome(t).kind = "response"
             /\ LastOutcome(t).status \in 200 .. 299
             /\ LastOutcome(t).body.json
             /\ LacksFirst(LastOutcome(t).body.value,
                           IF call[t].method = "openai.chat_completion"
                           THEN "choices" ELSE "data")
             => /\ pc[t] = "raised"
                /\ result[t].exc.type \in ShapeErrors
                /\ Attempts(t) = Len(outcomes[t])
                /\ Len(delays[t]) = Attempts(t) - 1 )
        /\ ( pc[t] = "raised" /\ result[t].exc.type \in ShapeErrors => Unwraps(t) )

\* return_only_answer on a 200 response without a "choices" key, received on
\* the second attempt: KeyError after two requests and one delay
C11_Witness ==
    \E t \in DOMAIN pc :
        /\ pc[t] = "raised"
        /\ call[t].method = "openai.chat_completion"
        /\ call[t].flag
        /\ Len(outcomes[t]) = 2
        /\ LastOutcome(t) = Response(200, JsonBody(ErrorBody))
        /\ result[t] = Raise(LocalError("KeyError"))
        /\ Attempts(t) = 2

(***************************************************************************)
(* The calls together with close(): clients that are closed while calls    *)
(* run and that are called after they were closed                          *)
(***************************************************************************)
\* retry budgets of the clients that are closed; backoff factor 2 seconds
CloseArgs ==
    { SettingsArgs(None, None, Some(n), Some(Float(2))) : n \in -1 .. 1 }

NextClose ==
    \/ ConstructSome(CloseArgs)
    \/ \E t \in DOMAIN pc : StartCall(t)
    \/ \E t \in DOMAIN pc : ReceiveSuccess(t)
    \/ \E t \in DOMAIN pc : ReceiveErrorStatus(t)
    \/ \E t \in DOMAIN pc : ReceiveNetworkError(t)
    \/ \E t \in DOMAIN pc : Wake(t)
    \/ \E t \in DOMAIN pc : Cancel(t)
    \/ \E c \in DOMAIN client : Close(c)

SpecClose == Init /\ [][NextClose]_vars

\* C12: the first close() of a client does not raise; every close() after it
\* raises, and every chat_completion / embeddings started after it (on a
\* client whose retry budget is not negative) raises the error of the closed
\* client without sending a request and without a backoff delay.
C12_ClosedClientRaises ==
    /\ \A c \in DOMAIN closes :
           \A i \in 1 .. Len(closes[c]) : closes[c][i].ok <=> i = 1
    /\ \A t \in DOMAIN pc :
           Called(t) /\ call[t].after_close /\ ClientOf(t).max_retries >= 0
           => /\ pc[t] = "raised"
              /\ result[t].exc.type = "RuntimeError"
              /\ Attempts(t) = 0
              /\ delays[t] = << >>

\* C13: constructing a client from constructor arguments without a
\* credential in an environment without the API key variable raises the
\* configuration error and leaves no client: no HTTP client, no history, no
\* request.  A client that is constructed holds the explicit credential when
\* one is given, whatever the environment holds, and the environment's
\* otherwise.
C13_MissingCredentialRaises ==
    \A c \in DOMAIN client :
        client[c].state # "absent"
        => LET args == client[c].args
           IN  /\ args.api_key = None /\ env.API_KEY = None
                  => /\ client[c].state = "config_error"
                     /\ DOMAIN client[c] \cap {"settings", "timeout"} = {}
                     /\ messages[c] = << >>
                     /\ closes[c] = << >>
                     /\ \A t \in DOMAIN pc : ~ Called(t) /\ sent[t] = << >>
               /\ client[c].state = "ready" /\ args.api_key # None
                  => client[c].settings.api_key = args.api_key[1]
               /\ client[c].state = "ready" /\ args.api_key = None
                  => client[c].settings.api_key = env.API_KEY[1]

\* a construction without any credential has raised
C13_Witness ==
    \E c \in DOMAIN client :
        /\ client[c].state = "config_error"
        /\ client[c].args.api_key = None
        /\ env.API_KEY = None

\* a client holds the explicit credential although the environment has one
C13_WitnessExplicit ==
    \E c \in DOMAIN client :
        /\ client[c].state = "ready"
        /\ client[c].args.api_key = Some("sk-explicit")
        /\ env.API_KEY = Some("sk-env")
        /\ client[c].settings.api_key = "sk-explicit"

\* C14: on a client with max_retries = 0, a call whose first attempt fails,
\* with a retriable failure or with a terminal status, raises that failure
\* after exactly one attempt and without any backoff delay.
C14_NoRetriesWithBudgetZero ==
    \A t \in DOMAIN pc :
        /\ Called(t)
        /\ ClientOf(t).settings.max_retries = 0
        /\ Len(outcomes[t]) >= 1
        /\ RetriableFailure(outcomes[t][1]) \/ TerminalStatus(outcomes[t][1])
        => /\ pc[t] = "raised"
           /\ result[t] = Raise(CauseOf(outcomes[t][1], 0))
           /\ Attempts(t) = 1
           /\ Len(outcomes[t]) = 1
           /\ delays[t] = << >>

\* with max_retries = 0 a call has raised on HTTP 503 after one request
C14_Witness ==
    \E t \in DOMAIN pc :
        /\ Called(t)
        /\ ClientOf(t).settings.max_retries = 0
        /\ pc[t] = "raised"
        /\ outcomes[t] = << Response(503, JsonBody(ErrorBody)) >>
        /\ Attempts(t) = 1
        /\ delays[t] = << >>

\* C16: within one call HTTP attempts and backoff delays alternate.  While
\* attempt number k awaits its response k-1 delays have been slept; while
\* the call sleeps it has slept one delay per attempt made; a call that has
\* returned or raised slept one delay less than it made attempts, so none
\* after its last attempt; the i-th delay is the one of attempt index i-1;
\* and a call that used up max_retries = n on retriable failures made n+1
\* attempts and slept n delays.
C16_AttemptsAndDelaysAlternate ==
    \A t \in DOMAIN pc :
        Called(t)
        => /\ pc[t] = "awaiting"
              => Len(delays[t]) = Attempts(t) - 1 /\ Len(outcomes[t]) = Attempts(t) - 1
           /\ pc[t] = "sleeping"
              => Len(delays[t]) = Attempts(t) /\ Len(outcomes[t]) = Attempts(t)
           /\ pc[t] \in {"returned", "raised"}
              => /\ Len(outcomes[t]) = Attempts(t)
                 /\ Len(delays[t]) = IF Attempts(t) = 0 THEN 0 ELSE Attempts(t) - 1
           /\ pc[t] = "cancelled"
              => Len(delays[t]) \in {Attempts(t) - 1, Attempts(t)}
           /\ \A i \in 1 .. Len(delays[t]) :
                  /\ delays[t][i] = backoff(ClientOf(t).backoff_factor, i - 1)
                  /\ RetriableFailure(outcomes[t][i])
           /\ /\ pc[t] = "raised"
              /\ ClientOf(t).max_retries >= 0
              /\ AllRetriable(t, Len(outcomes[t]))
              => /\ Attempts(t) = ClientOf(t).max_retries + 1
                 /\ Len(delays[t]) = ClientOf(t).max_retries

\* a call with max_retries = 2 has raised after three attempts and the two
\* delays 1.5 s and 3 s, in this order
C16_Witness ==
    \E t \in DOMAIN pc :
        /\ Called(t)
        /\ pc[t] = "raised"
        /\ ClientOf(t).max_retries = 2
        /\ Attempts(t) = 3
        /\ delays[t] = << Float(1) + FloatScale \div 2, Float(3) >>

ChatMethods ==
    {"openai.chat_completion", "anthropic.chat_completion", "perplexity.chat_completion"}

\* task t starts a chat_completion call on client c in this step
StartsChat(t, c) ==
    /\ pc[t] \in Ended
    /\ call'[t] # call[t]
    /\ call'[t].method \in ChatMethods
    /\ call'[t].client = c

\* C17: the history of a constructed client changes only in the step in
\* which a chat_completion call starts on it, and then by exactly one user
\* entry with the query of the call appended at its end, which the first
\* request of the call already carries; every other step (a response, a
\* failure, a retry, a cancellation, an embeddings call) leaves it as it is.
\* After k chat_completion calls it is the initial history followed by the k
\* user entries of the calls in call order, so it never holds an assistant
\* entry.
C17_HistoryChangedOnlyByChatCompletion ==
    [][ \A c \in DOMAIN messages :
          client[c].state = "ready"
          => /\ \/ messages'[c] = messages[c] /\ ~ \E t \in DOMAIN pc : StartsChat(t, c)
                \/ \E t \in DOMAIN pc :
                      /\ StartsChat(t, c)
                      /\ \E q \in Queries :
                            /\ messages'[c] =
                                 Append(messages[c], [role |-> "user", content |-> q])
                            /\ queries'[c] = Append(queries[c], q)
                      /\ sent'[t] # << >> => sent'[t][1].messages = messages'[c]
                      /\ Len(sent'[t]) <= 1
             /\ Len(messages'[c]) =
                  Len(queries'[c]) + (IF client[c].provider = "anthropic" THEN 0 ELSE 1)
             /\ \A i \in 1 .. Len(messages'[c]) : messages'[c][i].role # "assistant"
             /\ \A i \in 1 .. Len(queries'[c]) :
                   messages'[c][Len(messages'[c]) - Len(queries'[c]) + i] =
                      [role |-> "user", content |-> queries'[c][i]]
      ]_vars

\* the second chat_completion call of a client is in its second attempt and
\* the history holds the two user entries of the two calls
C17_Witness ==
    \E t \in DOMAIN pc :
        /\ Called(t)
        /\ call[t].method \in ChatMethods
        /\ call[t].turn = 2
        /\ Attempts(t) = 2
        /\ UserTurns(messages[call[t].client]) = 2

\* C18: a call cancelled while it awaits a response or sleeps a backoff
\* delay ends with CancelledError, which is none of the errors the retry
\* loop raises; the cancellation is not retried: the call has sent no
\* request and started no delay beyond those it had when it was cancelled
\* (one delay per failure received, and at most the one request still
\* unanswered).
C18_CancellationAbortsTheCall ==
    \A t \in DOMAIN pc :
        cancelled[t]
        => /\ pc[t] = "cancelled"
           /\ result[t] = Raise(LocalError("CancelledError"))
           /\ result[t].exc.type \notin {"HTTPStatusError"} \cup NetworkErrors
           /\ Len(delays[t]) = Len(outcomes[t])
           /\ Attempts(t) \in {Len(outcomes[t]), Len(outcomes[t]) + 1}

\* a call was cancelled while its second request was unanswered
C18_Witness ==
    \E t \in DOMAIN pc :
        /\ cancelled[t]
        /\ pc[t] = "cancelled"
        /\ Attempts(t) = 2
        /\ Len(outcomes[t]) = 1

\* a call was cancelled during its first backoff delay
C18_WitnessSleep ==
    \E t \in DOMAIN pc :
        /\ cancelled[t]
        /\ pc[t] = "cancelled"
        /\ Attempts(t) = 1
        /\ Len(delays[t]) = 1

\* C19: the history of an OpenAI or Perplexity client is never empty, its
\* first entry is the system message and no later entry has the role
\* system; the messages of every chat_completion request of these clients
\* start with the system message.
C19_SystemMessageStaysFirst ==
    /\ \A c \in DOMAIN client :
           client[c].state = "ready" /\ client[c].provider \in {"openai", "perplexity"}
           => /\ Len(messages[c]) >= 1
              /\ messages[c][1] = [role |-> "system", content |-> DefaultSystemPrompt]
              /\ \A i \in 2 .. Len(messages[c]) : messages[c][i].role # "system"
    /\ \A t \in DOMAIN pc :
           /\ Called(t)
           /\ call[t].method \in {"openai.chat_completion", "perplexity.chat_completion"}
           => \A i \in 1 .. Len(sent[t]) :
                 /\ Len(sent[t][i].messages) >= 2
                 /\ sent[t][i].messages[1].role = "system"
                 /\ \A j \in 2 .. Len(sent[t][i].messages) :
                       sent[t][i].messages[j].role # "system"

\* the retried request of the second chat_completion call of a Perplexity
\* client carries the system message followed by the two user entries
C19_Witness ==
    \E t \in DOMAIN pc :
        /\ Called(t)
        /\ call[t].method = "perplexity.chat_completion"
        /\ Len(sent[t]) = 2
        /\ sent[t][2].messages =
             << SystemMessage, UserMessage("q1"), UserMessage("q2") >>

(***************************************************************************)
(* Concurrent calls: two tasks of one event loop call chat_completion on   *)
(* the same client instance.  A sleep of the retry loop ends once its      *)
(* delay has passed, which the fairness condition on Wake states.          *)
(***************************************************************************)
Tasks2 == {"t1", "t2"}

\* one retry, backoff factor 2 seconds
ConcurrentArgs == { SettingsArgs(None, None, Some(1), Some(Float(2))) }

\* what a request of a concurrent call produces: the answer, HTTP 429 or a
\* timeout
ConcurrentOutcomes ==
    { Response(200, JsonBody(ChatBody(<< "hi" >>))),
      Response(429, JsonBody(ErrorBody)),
      RequestError("ReadTimeout") }

InitConcurrent == InitWith(CallEnvs, Clients, Tasks2)

StartChat(t) ==
    \E c \in DOMAIN client, q \in Queries :
        \/ OpenAIChatCompletion(t, c, q, FALSE, EmptyDict)
        \/ AnthropicChatCompletion(t, c, q, EmptyDict)
        \/ PerplexityChatCompletion(t, c, q)

NextConcurrent ==
    \/ ConstructSome(ConcurrentArgs)
    \/ \E t \in DOMAIN pc : StartChat(t)
    \/ \E t \in DOMAIN pc, o \in ConcurrentOutcomes : Outcome(t, o)
    \/ \E t \in DOMAIN pc : Wake(t)

SpecConcurrent ==
    InitConcurrent /\ [][NextConcurrent]_vars /\ \A t \in Tasks2 : WF_vars(Wake(t))

\* while task t sleeps a backoff delay, every step another task u could
\* take if t were not there is enabled
NotBlockedBySleepOf(t) ==
    \A u \in DOMAIN pc \ {t} :
        /\ pc[u] = "awaiting" => \A o \in ConcurrentOutcomes : ENABLED Outcome(u, o)
        /\ pc[u] = "sleeping" => ENABLED Wake(u)
        /\ /\ pc[u] \in Ended
           /\ \E c \in DOMAIN client :
                 client[c].state = "ready" /\ UserTurns(messages[c]) < MaxTurns
           => ENABLED StartChat(u)

\* C15: while a call sleeps a backoff delay the other task is not held up:
\* it can start a call, receive the outcome of its request and wake from its
\* own delay; and the sleeping call does resume: it makes its next attempt.
C15_SleepDoesNotBlockOthers ==
    /\ [](\A t \in Tasks2 : pc[t] = "sleeping" => NotBlockedBySleepOf(t))
    /\ \A t \in Tasks2 : \A k \in 1 .. MaxRetriesBound + 1 :
          (pc[t] = "sleeping" /\ Attempts(t) = k)
             ~> (pc[t] = "awaiting" /\ Attempts(t) = k + 1)

\* during the first backoff delay of one task's call the other task has
\* started a call and received its answer
C15_Witness ==
    \E t \in Tasks2, u \in Tasks2 :
        /\ t # u
        /\ pc[t] = "sleeping"
        /\ Attempts(t) = 1
        /\ pc[u] = "returned"
        /\ call[u].during_sleep
        /\ call[u].turn > call[t].turn

\* C20: all the requests of one chat_completion call, retries included,
\* carry the same messages, which end with the user entry of that call, also
\* while other chat_completion calls run on the same client.
C20_RetriesSendSameMessages ==
    \A t \in DOMAIN pc :
        Called(t) /\ call[t].method \in ChatMethods
        => \A i \in 1 .. Len(sent[t]) :
              /\ sent[t][i].messages = sent[t][1].messages
              /\ sent[t][i].messages[Len(sent[t][i].messages)] =
                    UserMessage(queries[call[t].client][call[t].turn])

\* C21: every step of an embeddings call (its start, a response, a failure,
\* a backoff delay, a retry, a cancellation) leaves the history of every
\* client as it is; each of its requests carries the model, the input and
\* the caller's extra options and no messages; and the messages of every
\* OpenAI chat_completion request are the system message followed by the
\* user entries of the chat_completion calls made so far up to its own,
\* whatever embeddings calls ran in between.
C21_EmbeddingsLeavesHistoryAlone ==
    [][ \A t \in DOMAIN pc :
          /\ call'[t].method = "openai.embeddings"
             => /\ messages' = messages
                /\ queries' = queries
                /\ \A i \in 1 .. Len(sent'[t]) :
                      /\ "messages" \notin DOMAIN sent'[t][i]
                      /\ DOMAIN sent'[t][i] \subseteq {"model", "input", "top_p"}
                      /\ sent'[t][i].input \in Inputs
          /\ call'[t].method = "openai.chat_completion"
             => \A i \in 1 .. Len(sent'[t]) :
                   sent'[t][i].messages =
                     << SystemMessage >> \o
                     [j \in 1 .. call'[t].turn |->
                        UserMessage(queries'[call'[t].client][j])]
      ]_vars

\* an embeddings call made after the first chat_completion call of the
\* client was retried and has returned; the history holds the one user entry
C21_Witness ==
    \E t \in DOMAIN pc :
        /\ call[t].method = "openai.embeddings"
        /\ call[t].turn = 1
        /\ pc[t] = "returned"
        /\ Attempts(t) = 2
        /\ messages[call[t].client] = << SystemMessage, UserMessage("q1") >>

=============================================================================
